---- MODULE Spec2Model ----
(***************************************************************************)
(* Model of the system catalog table of src/catalog/src/system.rs:         *)
(* the row codec (decode_system_catalog, EntryType::try_from,              *)
(* build_table_insert_request), the bootstrap SystemCatalogTable::new and  *)
(* the Table facade (scan, insert, records).                               *)
(*                                                                         *)
(* Byte strings (&[u8]) are sequences of byte values, Strings are          *)
(* sequences of Unicode code points, Option<T> is a sequence of length 0   *)
(* (None) or 1 (Some).                                                     *)
(***************************************************************************)
EXTENDS Integers, Sequences, FiniteSets, TLC

VARIABLES
  call,     \* codec: the call being made (operation and arguments)
  ret,      \* codec: None while the call runs, Some(its return value) after
  now,      \* the wall clock, in milliseconds
  tables,   \* engine: the tables it holds, in creation order
  rows,     \* engine: number of rows inserted into the catalog table
  faulty,   \* engine: whether its requests may fail
  pc,       \* per bootstrap: "start", "create" (open returned None) or "done"
  log,      \* per bootstrap: the engine requests new() issued, with responses
  result,   \* per bootstrap: None, or Some(what new() returned)
  last,     \* per facade: None, or Some(the last facade operation and result)
  fwd,      \* per facade: the engine requests its operations forwarded
  aborted   \* per facade: whether an operation panicked

vars == <<call, ret, now, tables, rows, faulty, pc, log, result, last, fwd, aborted>>

codecVars == <<call, ret, now>>

bootVars == <<tables, rows, faulty, pc, log, result, last, fwd, aborted>>

(***************************************************************************)
(* Bounds of the model.                                                    *)
(***************************************************************************)
\* largest number of dot-separated parts of a generated key
MaxParts == 4

\* entry_type bytes 0..MaxEntryByte (and 255) are given to the decoder
MaxEntryByte == 5

\* the wall clock runs over 0..MaxClock milliseconds
MaxClock == 2

\* facade operations made through one facade
MaxOps == 1

(***************************************************************************)
(* Options.                                                                *)
(***************************************************************************)
None == <<>>

Some(x) == <<x>>

IsSome(o) == Len(o) = 1

Unwrap(o) == o[1]

(***************************************************************************)
(* Bytes and strings.                                                      *)
(***************************************************************************)
\* '.', the separator of key.split('.')
Dot == 46

\* a byte that is valid nowhere in UTF-8
BadByte == 255

\* U+FFFD REPLACEMENT CHARACTER, what from_utf8_lossy puts for an invalid byte
ReplacementChar == 65533

\* String::from_utf8_lossy on the bytes the model draws: an ASCII byte is its
\* own code point, the byte 0xFF (valid in no UTF-8 sequence) is replaced.
FromUtf8Lossy(bytes) ==
  [i \in 1..Len(bytes) |-> IF bytes[i] < 128 THEN bytes[i] ELSE ReplacementChar]

\* str::as_bytes of an ASCII string
AsBytes(s) == s

\* index of the first separator in s, 0 when there is none
RECURSIVE FindDot(_, _)
FindDot(s, i) ==
  IF i > Len(s) THEN 0
  ELSE IF s[i] = Dot THEN i
  ELSE FindDot(s, i + 1)

\* key.split('.').collect::<Vec<_>>()
RECURSIVE Split(_)
Split(s) ==
  LET d == FindDot(s, 1) IN
  IF d = 0 THEN <<s>>
  ELSE <<SubSeq(s, 1, d - 1)>> \o Split(SubSeq(s, d + 1, Len(s)))

(***************************************************************************)
(* EntryType and its numeric codes.                                        *)
(***************************************************************************)
\* enum EntryType { Catalog = 1, Schema = 2, Table = 3 }, `variant as u8`
EntryTypeCode(t) ==
  CASE t = "Catalog" -> 1
    [] t = "Schema" -> 2
    [] t = "Table" -> 3

\* impl TryFrom<u8> for EntryType, with the second match arm's comparison
\* taken against the wrong variant
TryFromWrongArm(value) ==
  IF value = EntryTypeCode("Catalog") THEN [ok |-> TRUE, v |-> "Catalog"]
  ELSE IF value = EntryTypeCode("Table") THEN [ok |-> TRUE, v |-> "Schema"]
  ELSE IF value = EntryTypeCode("Schema") THEN [ok |-> TRUE, v |-> "Table"]
  ELSE [ok |-> FALSE, err |-> [tag |-> "InvalidEntryType", entry_type |-> Some(value)]]

\* impl TryFrom<u8> for EntryType, with a last arm that defaults to Catalog
\* instead of failing
TryFromDefaultArm(value) ==
  IF value = EntryTypeCode("Catalog") THEN [ok |-> TRUE, v |-> "Catalog"]
  ELSE IF value = EntryTypeCode("Schema") THEN [ok |-> TRUE, v |-> "Schema"]
  ELSE IF value = EntryTypeCode("Table") THEN [ok |-> TRUE, v |-> "Table"]
  ELSE [ok |-> TRUE, v |-> "Catalog"]

\* impl TryFrom<u8> for EntryType
TryFrom(value) ==
  IF value = EntryTypeCode("Catalog") THEN [ok |-> TRUE, v |-> "Catalog"]
  ELSE IF value = EntryTypeCode("Schema") THEN [ok |-> TRUE, v |-> "Schema"]
  ELSE IF value = EntryTypeCode("Table") THEN [ok |-> TRUE, v |-> "Table"]
  ELSE [ok |-> FALSE, err |-> [tag |-> "InvalidEntryType", entry_type |-> Some(value)]]

(***************************************************************************)
(* TableEntryValue and its JSON form.                                      *)
(***************************************************************************)
\* the bytes of {"table_id":
JsonPrefix == <<123, 34, 116, 97, 98, 108, 101, 95, 105, 100, 34, 58>>

\* the byte of }
JsonClose == 125

\* decimal digits of n, most significant first
RECURSIVE Digits(_)
Digits(n) ==
  IF n < 10 THEN <<48 + n>>
  ELSE Digits(n \div 10) \o <<48 + (n % 10)>>

\* serde_json::to_string(&TableEntryValue { table_id }).unwrap().as_bytes()
ToJson(table_id) == JsonPrefix \o Digits(table_id) \o <<JsonClose>>

\* a JSON number: decimal digits, no leading zero
IsNumber(ds) ==
  /\ Len(ds) >= 1
  /\ \A i \in 1..Len(ds) : ds[i] \in 48..57
  /\ (Len(ds) = 1 \/ ds[1] # 48)

RECURSIVE ParseDigits(_)
ParseDigits(ds) ==
  IF Len(ds) = 0 THEN 0
  ELSE 10 * ParseDigits(SubSeq(ds, 1, Len(ds) - 1)) + (ds[Len(ds)] - 48)

\* serde_json::from_slice::<TableEntryValue>(value), on compact JSON text:
\* Some(table_id) for the object {"table_id":n}, None (a deserialize error)
\* for the other texts the model draws; every n the model draws fits TableId
FromJson(value) ==
  LET n == Len(value)
      p == Len(JsonPrefix)
      ds == SubSeq(value, p + 1, n - 1)
  IN IF /\ n > p + 1
        /\ SubSeq(value, 1, p) = JsonPrefix
        /\ value[n] = JsonClose
        /\ IsNumber(ds)
     THEN Some(ParseDigits(ds))
     ELSE None

(***************************************************************************)
(* decode_system_catalog                                                   *)
(***************************************************************************)
InvalidKey(k) == [tag |-> "InvalidKey", key |-> k]

CatalogEntry(c) == [tag |-> "Catalog", catalog_name |-> c]

SchemaEntry(c, s) == [tag |-> "Schema", catalog_name |-> c, schema_name |-> s]

TableEntry(c, s, t, id) ==
  [tag |-> "Table", catalog_name |-> c, schema_name |-> s, table_name |-> t,
   table_id |-> id]

\* the Schema arm with the arity test of the Table arm
DecodeSchemaLoose(key) ==
  LET schema_parts == Split(key) IN
  IF Len(schema_parts) < 2 THEN InvalidKey(Some(key))
  ELSE SchemaEntry(schema_parts[1], schema_parts[2])

\* the EntryType::Schema arm
DecodeSchema(key) ==
  LET schema_parts == Split(key) IN
  IF Len(schema_parts) # 2 THEN InvalidKey(Some(key))
  ELSE SchemaEntry(schema_parts[1], schema_parts[2])

\* the Table arm with a missing value defaulted instead of rejected
DecodeTableDefaultValue(key, value) ==
  LET table_parts == Split(key) IN
  IF Len(table_parts) < 3 THEN InvalidKey(Some(key))
  ELSE IF ~IsSome(value)
    THEN TableEntry(table_parts[1], table_parts[2], table_parts[3], 0)
  ELSE LET table_meta == FromJson(Unwrap(value)) IN
    IF ~IsSome(table_meta) THEN [tag |-> "ValueDeserialize"]
    ELSE TableEntry(table_parts[1], table_parts[2], table_parts[3],
                    Unwrap(table_meta))

\* the EntryType::Table arm
DecodeTable(key, value) ==
  LET table_parts == Split(key) IN
  IF Len(table_parts) < 3 THEN InvalidKey(Some(key))
  ELSE IF ~IsSome(value) THEN [tag |-> "EmptyValue"]
  ELSE LET table_meta == FromJson(Unwrap(value)) IN
    IF ~IsSome(table_meta) THEN [tag |-> "ValueDeserialize"]
    ELSE TableEntry(table_parts[1], table_parts[2], table_parts[3],
                    Unwrap(table_meta))

\* decode_system_catalog with the entry type converted before the key is
\* looked at
DecodeTypeFirst(entry_type, key, value) ==
  IF ~IsSome(entry_type) THEN InvalidKey(None)
  ELSE LET t == TryFrom(Unwrap(entry_type)) IN
    IF ~t.ok THEN t.err
    ELSE IF ~IsSome(key) THEN InvalidKey(None)
    ELSE LET k == FromUtf8Lossy(Unwrap(key)) IN
      CASE t.v = "Catalog" -> CatalogEntry(k)
        [] t.v = "Schema" -> DecodeSchema(k)
        [] t.v = "Table" -> DecodeTable(k, value)

\* decode_system_catalog
DecodeSystemCatalog(entry_type, key, value) ==
  IF ~IsSome(entry_type) THEN InvalidKey(None)
  ELSE IF ~IsSome(key) THEN InvalidKey(None)
  ELSE LET k == FromUtf8Lossy(Unwrap(key))
           t == TryFrom(Unwrap(entry_type))
       IN IF ~t.ok THEN t.err
          ELSE CASE t.v = "Catalog" -> CatalogEntry(k)
                 [] t.v = "Schema" -> DecodeSchema(k)
                 [] t.v = "Table" -> DecodeTable(k, value)

(***************************************************************************)
(* build_table_insert_request                                              *)
(***************************************************************************)
\* crate::consts, the reserved identifiers of the system catalog table
SYSTEM_CATALOG_NAME == "system"

INFORMATION_SCHEMA_NAME == "information_schema"

SYSTEM_CATALOG_TABLE_NAME == "system_catalog"

SYSTEM_CATALOG_TABLE_ID == 0

\* build_table_insert_request; t1 and t2 are what the two calls of
\* util::current_time_millis() return
BuildTableInsertRequest(full_table_name, table_id, t1, t2) ==
  [table_name |-> SYSTEM_CATALOG_TABLE_NAME,
   columns_values |->
     [entry_type |-> <<EntryTypeCode("Table")>>,
      key |-> <<AsBytes(full_table_name)>>,
      timestamp |-> <<0>>,
      value |-> <<ToJson(table_id)>>,
      gmt_created |-> <<t1>>,
      gmt_modified |-> <<t2>>]]

(***************************************************************************)
(* Inputs of the codec.                                                    *)
(***************************************************************************)
\* the parts keys are made of: empty, "a", "b", and an invalid byte
PartSet == {<<>>, <<97>>, <<98>>, <<BadByte>>}

RECURSIVE KeysOf(_)
KeysOf(n) ==
  IF n = 1 THEN PartSet
  ELSE {k \o <<Dot>> \o p : k \in KeysOf(n - 1), p \in PartSet}

Keys == UNION {KeysOf(n) : n \in 1..MaxParts}

EntryBytes == (0..MaxEntryByte) \cup {255}

\* the table ids encoded and decoded: one, two and three digits
TableIds == {0, 7, 42, 105}

\* texts that are not the JSON of a TableEntryValue: empty, {}, truncated,
\* no number, a string, a negative number, a leading zero, another field
BadValues ==
  {<<>>, <<123, 125>>, JsonPrefix, JsonPrefix \o <<JsonClose>>,
   JsonPrefix \o <<34, 55, 34, JsonClose>>,
   JsonPrefix \o <<45, 49, JsonClose>>,
   JsonPrefix \o <<48, 55, JsonClose>>,
   <<123, 34, 105, 100, 34, 58, 55, JsonClose>>}

Values == {ToJson(n) : n \in TableIds} \cup BadValues

Opt(S) == {None} \cup {Some(x) : x \in S}

\* full table names handed to the encoder: ASCII strings
FullNames == {k \in Keys : \A i \in 1..Len(k) : k[i] < 128}

DecodeCalls ==
  {[op |-> "decode", entry_type |-> e, key |-> k, value |-> v] :
     e \in Opt(EntryBytes), k \in Opt(Keys), v \in Opt(Values)}

TryFromCalls == {[op |-> "try_from", value |-> b] : b \in 0..255}

BuildCalls ==
  {[op |-> "build_insert", full_table_name |-> n, table_id |-> i] :
     n \in FullNames, i \in TableIds}

(***************************************************************************)
(* The codec's calls: a call is drawn by Init and returns once.            *)
(***************************************************************************)
\* a call of decode_system_catalog returns
Decode ==
  /\ call.op = "decode"
  /\ ~IsSome(ret)
  /\ ret' = Some(DecodeSystemCatalog(call.entry_type, call.key, call.value))
  /\ UNCHANGED <<call, now>>
  /\ UNCHANGED bootVars

\* a call of EntryType::try_from returns
Convert ==
  /\ call.op = "try_from"
  /\ ~IsSome(ret)
  /\ ret' = Some(TryFrom(call.value))
  /\ UNCHANGED <<call, now>>
  /\ UNCHANGED bootVars

\* a call of build_table_insert_request returns; the wall clock is read
\* twice and may advance before each read
BuildInsert ==
  /\ call.op = "build_insert"
  /\ ~IsSome(ret)
  /\ \E t1 \in now..MaxClock :
       \E t2 \in t1..MaxClock :
         /\ ret' = Some(BuildTableInsertRequest(call.full_table_name,
                                                call.table_id, t1, t2))
         /\ now' = t2
  /\ UNCHANGED call
  /\ UNCHANGED bootVars

(***************************************************************************)
(* The schema and the requests of SystemCatalogTable::new.                 *)
(***************************************************************************)
ENTRY_TYPE_INDEX == 0

KEY_INDEX == 1

TIMESTAMP_INDEX == 2

VALUE_INDEX == 3

Column(name, type) == [name |-> name, data_type |-> type, is_nullable |-> FALSE]

\* build_system_catalog_schema
BuildSystemCatalogSchema ==
  [column_schemas |->
     <<Column("entry_type", "uint8"), Column("key", "binary"),
       Column("timestamp", "timestamp_millis"), Column("value", "binary"),
       Column("gmt_created", "timestamp_millis"),
       Column("gmt_modified", "timestamp_millis")>>,
   timestamp_index |-> 2]

\* the OpenTableRequest of new()
OpenTableRequest ==
  [catalog_name |-> SYSTEM_CATALOG_NAME,
   schema_name |-> INFORMATION_SCHEMA_NAME,
   table_name |-> SYSTEM_CATALOG_TABLE_NAME,
   table_id |-> SYSTEM_CATALOG_TABLE_ID]

\* the CreateTableRequest of new() with create_if_not_exists left false
CreateTableRequestNoFlag ==
  [id |-> SYSTEM_CATALOG_TABLE_ID,
   catalog_name |-> Some(SYSTEM_CATALOG_NAME),
   schema_name |-> Some(INFORMATION_SCHEMA_NAME),
   table_name |-> SYSTEM_CATALOG_TABLE_NAME,
   desc |-> Some("System catalog table"),
   schema |-> BuildSystemCatalogSchema,
   primary_key_indices |-> <<ENTRY_TYPE_INDEX, KEY_INDEX, TIMESTAMP_INDEX>>,
   create_if_not_exists |-> FALSE]

\* the CreateTableRequest of new()
CreateTableRequest ==
  [id |-> SYSTEM_CATALOG_TABLE_ID,
   catalog_name |-> Some(SYSTEM_CATALOG_NAME),
   schema_name |-> Some(INFORMATION_SCHEMA_NAME),
   table_name |-> SYSTEM_CATALOG_TABLE_NAME,
   desc |-> Some("System catalog table"),
   schema |-> BuildSystemCatalogSchema,
   primary_key_indices |-> <<ENTRY_TYPE_INDEX, KEY_INDEX, TIMESTAMP_INDEX>>,
   create_if_not_exists |-> TRUE]

(***************************************************************************)
(* The table engine, at its boundary.                                      *)
(***************************************************************************)
\* whether an engine request may fail
Fails == IF faulty THEN BOOLEAN ELSE {FALSE}

EngineHas(ts, id) == \E i \in 1..Len(ts) : ts[i].id = id

EngineGet(ts, id) == ts[CHOOSE i \in 1..Len(ts) : ts[i].id = id]

\* open_table: Ok(Some(table)), Ok(None) when there is no such table, or Err
EngineOpenTable(ts, req, fail) ==
  IF fail THEN [ok |-> FALSE]
  ELSE IF EngineHas(ts, req.table_id)
    THEN [ok |-> TRUE, table |-> Some(EngineGet(ts, req.table_id))]
  ELSE [ok |-> TRUE, table |-> None]

EngineNewTable(req) ==
  [id |-> req.id, catalog_name |-> req.catalog_name,
   schema_name |-> req.schema_name, table_name |-> req.table_name,
   schema |-> req.schema, primary_key_indices |-> req.primary_key_indices]

\* create_table: the existing table when there is one and the request says
\* create_if_not_exists, an error when there is one and it does not, the new
\* table otherwise
EngineCreateTable(ts, req, fail) ==
  IF fail THEN [ok |-> FALSE, tables |-> ts]
  ELSE IF EngineHas(ts, req.id)
    THEN IF req.create_if_not_exists
           THEN [ok |-> TRUE, table |-> EngineGet(ts, req.id), tables |-> ts]
           ELSE [ok |-> FALSE, tables |-> ts]
  ELSE [ok |-> TRUE, table |-> EngineNewTable(req),
        tables |-> Append(ts, EngineNewTable(req))]

\* insert: the number of rows of the request, or Err
EngineInsert(req, fail) ==
  IF fail THEN [ok |-> FALSE, err |-> "engine"]
  ELSE [ok |-> TRUE, v |-> Len(req.columns_values.key)]

\* scan: a stream over the rows, or Err
EngineScan(n, fail) ==
  IF fail THEN [ok |-> FALSE, err |-> "engine"]
  ELSE [ok |-> TRUE, v |-> [stream_rows |-> n]]

(***************************************************************************)
(* SystemCatalogTable::new, one action per engine request it awaits.       *)
(***************************************************************************)
\* the two bootstraps that run concurrently
Procs == {"b1", "b2"}

Facade(table) == [tag |-> "Ok", table |-> table, schema |-> BuildSystemCatalogSchema]

\* new() going on to create the table when open_table fails
NewAfterOpenSwallow(opened) ==
  IF ~opened.ok THEN [pc |-> "create", result |-> None]
  ELSE IF IsSome(opened.table)
    THEN [pc |-> "done", result |-> Some(Facade(Unwrap(opened.table)))]
  ELSE [pc |-> "create", result |-> None]

\* what new() does with the response of open_table
NewAfterOpen(opened) ==
  IF ~opened.ok THEN [pc |-> "done", result |-> Some([tag |-> "OpenSystemCatalog"])]
  ELSE IF IsSome(opened.table)
    THEN [pc |-> "done", result |-> Some(Facade(Unwrap(opened.table)))]
  ELSE [pc |-> "create", result |-> None]

\* what new() does with the response of create_table
NewAfterCreate(created) ==
  IF ~created.ok THEN [pc |-> "done", result |-> Some([tag |-> "CreateSystemCatalog"])]
  ELSE [pc |-> "done", result |-> Some(Facade(created.table))]

\* new() up to the response of engine.open_table
OpenTable(p) ==
  /\ pc[p] = "start"
  /\ \E fail \in Fails :
       LET opened == EngineOpenTable(tables, OpenTableRequest, fail)
           next == NewAfterOpen(opened)
       IN /\ log' = [log EXCEPT ![p] =
                       Append(@, [kind |-> "open", req |-> OpenTableRequest,
                                  resp |-> IF ~opened.ok THEN "error"
                                           ELSE IF IsSome(opened.table) THEN "table"
                                           ELSE "none"])]
          /\ pc' = [pc EXCEPT ![p] = next.pc]
          /\ result' = [result EXCEPT ![p] = next.result]
  /\ UNCHANGED <<tables, rows, faulty, last, fwd, aborted>>
  /\ UNCHANGED codecVars

\* new() from the None of open_table to the response of engine.create_table
CreateTable(p) ==
  /\ pc[p] = "create"
  /\ \E fail \in Fails :
       LET created == EngineCreateTable(tables, CreateTableRequest, fail)
           next == NewAfterCreate(created)
       IN /\ log' = [log EXCEPT ![p] =
                       Append(@, [kind |-> "create", req |-> CreateTableRequest,
                                  resp |-> IF created.ok THEN "table" ELSE "error"])]
          /\ tables' = created.tables
          /\ pc' = [pc EXCEPT ![p] = next.pc]
          /\ result' = [result EXCEPT ![p] = next.result]
  /\ UNCHANGED <<rows, faulty, last, fwd, aborted>>
  /\ UNCHANGED codecVars

(***************************************************************************)
(* The Table facade: scan, insert, records.                                *)
(***************************************************************************)
\* the facade of bootstrap p can take an operation
Usable(p) ==
  /\ IsSome(result[p])
  /\ Unwrap(result[p]).tag = "Ok"
  /\ ~aborted[p]
  /\ Len(fwd[p]) < MaxOps

\* the insert requests callers hand to the facade
InsertRequests ==
  {BuildTableInsertRequest(<<97, Dot, 98, Dot, 97>>, i, 0, 0) : i \in 0..1}

Projections == {None, Some(<<KEY_INDEX>>)}

Filters == {<<>>, <<"expr">>}

Limits == {None, Some(1)}

\* Table::scan of the facade: panics whatever its arguments are
Scan(p, projection, filters, limit) ==
  /\ Usable(p)
  /\ aborted' = [aborted EXCEPT ![p] = TRUE]
  /\ last' = [last EXCEPT ![p] =
                Some([op |-> "scan", projection |-> projection,
                      filters |-> filters, limit |-> limit])]
  /\ UNCHANGED <<tables, rows, faulty, pc, log, result, fwd>>
  /\ UNCHANGED codecVars

\* Table::insert of the facade: self.table.insert(request).await
Insert(p, request) ==
  /\ Usable(p)
  /\ \E fail \in Fails :
       LET inserted == EngineInsert(request, fail) IN
       /\ last' = [last EXCEPT ![p] = Some([op |-> "insert", ret |-> inserted])]
       /\ rows' = IF inserted.ok THEN rows + inserted.v ELSE rows
  /\ fwd' = [fwd EXCEPT ![p] = Append(@, [kind |-> "insert", request |-> request])]
  /\ UNCHANGED <<tables, faulty, pc, log, result, aborted>>
  /\ UNCHANGED codecVars

\* SystemCatalogTable::records: the full scan of the engine's table, its
\* result unwrapped
Records(p) ==
  /\ Usable(p)
  /\ \E fail \in Fails :
       LET scanned == EngineScan(rows, fail) IN
       /\ last' = [last EXCEPT ![p] = Some([op |-> "records", ret |-> scanned])]
       /\ aborted' = [aborted EXCEPT ![p] = ~scanned.ok]
  /\ fwd' = [fwd EXCEPT ![p] =
               Append(@, [kind |-> "scan", projection |-> None,
                          filters |-> <<>>, limit |-> None])]
  /\ UNCHANGED <<tables, rows, faulty, pc, log, result>>
  /\ UNCHANGED codecVars

(***************************************************************************)
(* Specifications.                                                         *)
(***************************************************************************)
\* the catalog table as an earlier bootstrap left it in the engine
ExistingTables == EngineCreateTable(<<>>, CreateTableRequest, FALSE).tables

BootIdle ==
  /\ pc = [p \in Procs |-> "start"]
  /\ log = [p \in Procs |-> <<>>]
  /\ result = [p \in Procs |-> None]
  /\ last = [p \in Procs |-> None]
  /\ fwd = [p \in Procs |-> <<>>]
  /\ aborted = [p \in Procs |-> FALSE]
  /\ rows = 0

\* the codec: one call with arguments drawn from the bounded sets
Init ==
  /\ call \in DecodeCalls \cup TryFromCalls \cup BuildCalls
  /\ ret = None
  /\ now = 0
  /\ tables = <<>>
  /\ faulty = FALSE
  /\ BootIdle

Next == Decode \/ Convert \/ BuildInsert

Spec == Init /\ [][Next]_vars

\* bootstraps and facades over one engine, with or without the catalog table,
\* reliable or not
InitBoot ==
  /\ call = [op |-> "none"]
  /\ ret = None
  /\ now = 0
  /\ tables \in {<<>>, ExistingTables}
  /\ faulty \in BOOLEAN
  /\ BootIdle

NextBoot ==
  \/ \E p \in Procs : OpenTable(p)
  \/ \E p \in Procs : CreateTable(p)
  \/ \E p \in Procs : \E request \in InsertRequests : Insert(p, request)
  \/ \E p \in Procs : Records(p)
  \/ \E p \in Procs : \E projection \in Projections : \E filters \in Filters :
       \E limit \in Limits : Scan(p, projection, filters, limit)

SpecBoot == InitBoot /\ [][NextBoot]_vars

(***************************************************************************)
(* Properties of the codec, checked under Spec.                            *)
(***************************************************************************)
\* a dot-free name: empty, "a" or "b"
Names == {<<>>, <<97>>, <<98>>}

Dotted(a, b) == a \o <<Dot>> \o b

\* number of dot-separated parts of a byte string
NumParts(k) == Cardinality({i \in 1..Len(k) : k[i] = Dot}) + 1

\* a call of decode_system_catalog has returned
Decoded == call.op = "decode" /\ IsSome(ret)

\* C1: decoding a well-formed row (key in valid UTF-8) gives the entry of
\* its type with the fields of the key and value: type 1 gives Catalog with
\* the key as catalog_name whatever the value; type 2 with key a.b gives
\* Schema{a, b} whatever the value; type 3 with key a.b.c and value
\* {"table_id":n} gives Table{a, b, c, n}.
C1_DecodeWellFormed ==
  (Decoded /\ IsSome(call.entry_type) /\ IsSome(call.key)) =>
    LET e == Unwrap(call.entry_type)
        k == Unwrap(call.key)
        r == Unwrap(ret)
    IN /\ (e = 1 /\ \A i \in 1..Len(k) : k[i] < 128) => r = CatalogEntry(k)
       /\ e = 2 => \A a \in Names, b \in Names :
                     k = Dotted(a, b) => r = SchemaEntry(a, b)
       /\ e = 3 => \A a \in Names, b \in Names, c \in Names, n \in TableIds :
                     (k = Dotted(a, Dotted(b, c)) /\ call.value = Some(ToJson(n)))
                       => r = TableEntry(a, b, c, n)

\* a Table row a.b.a with table id 42 has been decoded
C1_Witness ==
  /\ Decoded
  /\ call.entry_type = Some(3)
  /\ call.key = Some(<<97, Dot, 98, Dot, 97>>)
  /\ Unwrap(ret) = TableEntry(<<97>>, <<98>>, <<97>>, 42)

\* C2: decode with entry_type absent or key absent fails with InvalidKey
\* (carrying no key), whatever the other two arguments are.
C2_AbsentIsInvalidKey ==
  (Decoded /\ (~IsSome(call.entry_type) \/ ~IsSome(call.key))) =>
    Unwrap(ret) = InvalidKey(None)

\* decode of an unknown entry type byte without a key has failed
C2_Witness ==
  /\ Decoded
  /\ call.entry_type = Some(4)
  /\ call.key = None
  /\ Unwrap(ret).tag = "InvalidKey"

\* the byte-to-EntryType mapping succeeds exactly for 1, 2, 3, mapping back
\* to the same code, and fails with InvalidEntryType for every other byte
TryFromExact ==
  (call.op = "try_from" /\ IsSome(ret)) =>
    LET r == Unwrap(ret) IN
    IF call.value \in {1, 2, 3}
      THEN r.ok /\ EntryTypeCode(r.v) = call.value
      ELSE ~r.ok /\ r.err = [tag |-> "InvalidEntryType",
                             entry_type |-> Some(call.value)]

\* C3 as stated: decode with an entry_type byte outside {1,2,3} fails with
\* InvalidEntryType carrying the byte for every key and value argument, and
\* the byte-to-EntryType mapping succeeds exactly for 1, 2, 3.
C3_Original ==
  /\ (Decoded /\ IsSome(call.entry_type)
        /\ Unwrap(call.entry_type) \notin {1, 2, 3}) =>
       Unwrap(ret) = [tag |-> "InvalidEntryType", entry_type |-> call.entry_type]
  /\ TryFromExact

\* C3 amended: decode with an entry_type byte outside {1,2,3} and a key that
\* is present fails with InvalidEntryType carrying the byte, for every value
\* argument; with the key absent it fails with InvalidKey; the
\* byte-to-EntryType mapping succeeds exactly for 1, 2, 3.
C3_UnknownTypeWithKey ==
  /\ (Decoded /\ IsSome(call.entry_type)
        /\ Unwrap(call.entry_type) \notin {1, 2, 3}) =>
       IF IsSome(call.key)
         THEN Unwrap(ret) = [tag |-> "InvalidEntryType",
                             entry_type |-> call.entry_type]
         ELSE Unwrap(ret) = InvalidKey(None)
  /\ TryFromExact

\* decode of entry type byte 4 with a key has failed with InvalidEntryType
C3_Witness ==
  /\ Decoded
  /\ call.entry_type = Some(4)
  /\ IsSome(call.key)
  /\ Unwrap(ret).tag = "InvalidEntryType"

\* C4: with the key present, a Schema row whose key has not exactly 2 parts
\* and a Table row whose key has fewer than 3 parts fail with InvalidKey
\* carrying the key string, whatever the value; a Catalog row is accepted
\* with any key.
C4_KeyArity ==
  (Decoded /\ IsSome(call.entry_type) /\ IsSome(call.key)) =>
    LET e == Unwrap(call.entry_type)
        k == Unwrap(call.key)
        r == Unwrap(ret)
    IN /\ (e = 2 /\ NumParts(k) # 2) => r = InvalidKey(Some(FromUtf8Lossy(k)))
       /\ (e = 3 /\ NumParts(k) < 3) => r = InvalidKey(Some(FromUtf8Lossy(k)))
       /\ e = 1 => r.tag = "Catalog"

\* a Schema row with the three-part key a.b.a and a valid value was rejected
C4_Witness ==
  /\ Decoded
  /\ call.entry_type = Some(2)
  /\ call.key = Some(<<97, Dot, 98, Dot, 97>>)
  /\ call.value = Some(ToJson(7))
  /\ Unwrap(ret).tag = "InvalidKey"

C6_TableNameKeepsDots ==
  (Decoded /\ call.entry_type = Some(3) /\ IsSome(call.key)
     /\ NumParts(Unwrap(call.key)) > 3 /\ Unwrap(ret).tag = "Table") =>
    LET r == Unwrap(ret) IN
    Dotted(r.catalog_name, Dotted(r.schema_name, r.table_name))
      = FromUtf8Lossy(Unwrap(call.key))

\* C7: a row produced by build_table_insert_request has gmt_created equal to
\* gmt_modified, also when the clock advances while it runs.
C7_SameInstant ==
  (call.op = "build_insert" /\ IsSome(ret)) =>
    Unwrap(ret).columns_values.gmt_created
      = Unwrap(ret).columns_values.gmt_modified

(***************************************************************************)
(* Properties of the bootstrap and the facade, checked under SpecBoot.     *)
(***************************************************************************)
\* a logged open request of the reserved table, answered resp
IsOpen(entry, resp) ==
  /\ entry.kind = "open"
  /\ entry.req.table_id = SYSTEM_CATALOG_TABLE_ID
  /\ entry.req.table_name = SYSTEM_CATALOG_TABLE_NAME
  /\ entry.resp = resp

\* a logged create request with the reserved id and names, the primary key
\* columns (0,1,2) and create_if_not_exists, answered resp
IsCreate(entry, resp) ==
  /\ entry.kind = "create"
  /\ entry.req.id = SYSTEM_CATALOG_TABLE_ID
  /\ entry.req.catalog_name = Some(SYSTEM_CATALOG_NAME)
  /\ entry.req.schema_name = Some(INFORMATION_SCHEMA_NAME)
  /\ entry.req.table_name = SYSTEM_CATALOG_TABLE_NAME
  /\ entry.req.primary_key_indices = <<0, 1, 2>>
  /\ entry.req.create_if_not_exists = TRUE
  /\ entry.resp = resp

ResultTag(p) == Unwrap(result[p]).tag

\* C8: one bootstrap issues its engine requests in one of three sequences,
\* each request once: open answered with the table, then a Facade and no
\* create; open answered not-found, then one create whose failure is
\* returned as CreateSystemCatalog; open failed, then OpenSystemCatalog and
\* no create.
C8_BootstrapSequences ==
  \A p \in Procs :
    /\ pc[p] = "start" => (log[p] = <<>> /\ result[p] = None)
    /\ pc[p] = "create" =>
         (Len(log[p]) = 1 /\ IsOpen(log[p][1], "none") /\ result[p] = None)
    /\ pc[p] = "done" =>
         \/ /\ Len(log[p]) = 1
            /\ IsOpen(log[p][1], "table")
            /\ ResultTag(p) = "Ok"
         \/ /\ Len(log[p]) = 1
            /\ IsOpen(log[p][1], "error")
            /\ ResultTag(p) = "OpenSystemCatalog"
         \/ /\ Len(log[p]) = 2
            /\ IsOpen(log[p][1], "none")
            /\ IsCreate(log[p][2], "table")
            /\ ResultTag(p) = "Ok"
         \/ /\ Len(log[p]) = 2
            /\ IsOpen(log[p][1], "none")
            /\ IsCreate(log[p][2], "error")
            /\ ResultTag(p) = "CreateSystemCatalog"

\* a bootstrap whose open found nothing and whose create failed has returned
C8_Witness ==
  \E p \in Procs :
    /\ pc[p] = "done"
    /\ Len(log[p]) = 2
    /\ log[p][2].resp = "error"
    /\ ResultTag(p) = "CreateSystemCatalog"

\* C9: over an engine that does not fail and honours create_if_not_exists,
\* under every interleaving of the two bootstraps' open and create requests
\* no bootstrap reports CreateSystemCatalog, the engine never holds more
\* than one catalog table, and once both bootstraps are done both hold a
\* Facade of the table with the reserved id, the only table of the engine.
C9_ConcurrentBootstraps ==
  ~faulty =>
    /\ Len(tables) <= 1
    /\ \A p \in Procs : IsSome(result[p]) => ResultTag(p) = "Ok"
    /\ (\A p \in Procs : pc[p] = "done") =>
         /\ Len(tables) = 1
         /\ tables[1].id = SYSTEM_CATALOG_TABLE_ID
         /\ \A p \in Procs : Unwrap(result[p]).table = tables[1]

\* both opens saw not-found, both creates were issued, both bootstraps done
C9_Witness ==
  /\ ~faulty
  /\ \A p \in Procs :
       /\ pc[p] = "done"
       /\ Len(log[p]) = 2
       /\ log[p][1].resp = "none"
       /\ ResultTag(p) = "Ok"

\* C10: a scan through the facade's generic scan entry is the one condition
\* under which this layer aborts; insert and records return a value, also
\* when the engine fails the request they delegate.
C10_OnlyScanAborts ==
  \A p \in Procs :
    /\ aborted[p] => Unwrap(last[p]).op = "scan"
    /\ (IsSome(last[p]) /\ Unwrap(last[p]).op \in {"insert", "records"}) =>
         ~aborted[p]

====
